---- MODULE Spec2Model ----
(***************************************************************************)
(* A model of HttpRepository (src/src/repositories/http.repository.ts):    *)
(* the in-flight request cache of customRequest, the error classifier      *)
(* handleError / parseBackendError, and the payload coercion that follows  *)
(* a successful body read.                                                 *)
(* With it, LoggerService (src/services/logger.service.ts): the threshold  *)
(* of log, warning and error, the login redirect and the record handed to  *)
(* sendClientError.                                                        *)
(*                                                                         *)
(* Text is a sequence of tokens.  A token is a run of characters that the  *)
(* code never looks inside: the code tests the first character of a text   *)
(* (startsWith), runs one regular expression over it, and hands it to      *)
(* JSON.parse, Number and Boolean.                                         *)
(***************************************************************************)
EXTENDS Integers, Sequences, FiniteSets, TLC

\* ------------------------------------------------------------------ bounds

\* Calls of customRequest in one behaviour.
MaxCalls == 3
\* Longest body text, in tokens, that the classifier and the adapter are run on.
MaxBodyLen == 3

\* ------------------------------------------------------------------- text

\* The opening of the description pattern, "<b>description</b> <u>".
DOPEN == "<b>description</b> <u>"
\* Its closing, "</u>".
UCLOSE == "</u>"
\* A line terminator, which "." of the pattern does not match and which
\* JSON.parse and Number skip as white space.
NL == "\n"
\* A JSON object key with its colon, and a JSON string literal.
KEY == "\"k\":"
STR == "\"s\""

\* The first character of a token.
FirstChar(tok) ==
    CASE tok \in {"<", DOPEN, UCLOSE} -> "<"
      [] tok \in {KEY, STR} -> "\""
      [] tok = "true" -> "t"
      [] tok = "false" -> "f"
      [] OTHER -> tok

\* String.prototype.startsWith for a one-character search string.
startsWith(s, ch) == Len(s) > 0 /\ FirstChar(s[1]) = ch

\* All texts of at most n tokens over alphabet A.
TextsUpTo(A, n) == UNION {[1..k -> A] : k \in 0..n}

\* ------------------------------------------------------------------ options

\* An optional field: absent, or holding one value.
None == <<>>
Some(x) == <<x>>

\* ------------------------------------------------------------------ errors

\* new NetError(message, status?): the error of the network layer.  Its
\* status is the constructor's optional second argument; its body is unset.
NetError(message, status) ==
    [name |-> "NetError", message |-> message, status |-> status, body |-> None]

\* new BackError(message): the error of a structured backend payload.
BackError(message) ==
    [name |-> "BackError", message |-> message, status |-> None, body |-> None]

\* An error raised by the platform (fetch, Response.text, JSON.parse): it has
\* a name and no status and no body.
PlatformError(name) ==
    [name |-> name, message |-> <<name>>, status |-> None, body |-> None]

\* ------------------------------------------------------------- the classifier

\* Response.ok with no upper end.
okFrom200(response) == response.status >= 200

\* Response.ok: the status is in the range 200-299.
ok(response) == response.status >= 200 /\ response.status <= 299

\* The localized fallback of line 142 (a Russian "error not specified").
NoErrorText == <<"(error not specified)">>

\* Where the description pattern, tried at token i, ends: the first UCLOSE
\* at least one token after DOPEN with no line terminator in between
\* ("(.+?)" is lazy and needs one character), or 0 when it does not match.
DescriptionEnd(body, i) ==
    LET ends == {j \in (i + 2)..Len(body) :
                    /\ body[j] = UCLOSE
                    /\ \A k \in (i + 1)..(j - 1) : body[k] # NL}
    IN  IF body[i] # DOPEN \/ ends = {} THEN 0
        ELSE CHOOSE j \in ends : \A m \in ends : j <= m

\* (/<b>description<\/b> <u>(.+?)<\/u>/gu).exec(body): the capture of the
\* leftmost match, or None.
execDescription(body) ==
    LET starts == {i \in 1..Len(body) : DescriptionEnd(body, i) # 0}
    IN  IF starts = {} THEN None
        ELSE LET i == CHOOSE i \in starts : \A m \in starts : i <= m
             IN  Some(SubSeq(body, i + 1, DescriptionEnd(body, i) - 1))

\* `${response.status} - ${text}`
StatusLine(response, text) == <<ToString(response.status), " - ">> \o text

\* parseBackendError: the base implementation ignores the payload's fields.
parseBackendError(response, body) ==
    [BackError(StatusLine(response, response.statusText)) EXCEPT !.body = Some(body)]

\* handleError with the 401 rule after the rules of the body text.
handleErrorThrows401Last(response, body) ==
    LET error ==
            IF startsWith(body, "<")
            THEN LET match == execDescription(body)
                     d == IF match # None THEN match[1] ELSE response.statusText
                 IN  NetError(StatusLine(response, IF d = <<>> THEN NoErrorText ELSE d), None)
            ELSE IF startsWith(body, "{")
            THEN parseBackendError(response, body)
            ELSE IF response.status = 401
            THEN NetError(<<"Authorization exception">>, Some(401))
            ELSE NetError(StatusLine(response, response.statusText), None)
    IN  [error EXCEPT !.status = Some(response.status), !.body = Some(body)]

\* handleError without the fallback for an empty description.
handleErrorThrowsNoFallback(response, body) ==
    LET error ==
            IF response.status = 401
            THEN NetError(<<"Authorization exception">>, Some(401))
            ELSE IF startsWith(body, "<")
            THEN LET match == execDescription(body)
                     d == IF match # None THEN match[1] ELSE response.statusText
                 IN  NetError(StatusLine(response, d), None)
            ELSE IF startsWith(body, "{")
            THEN parseBackendError(response, body)
            ELSE NetError(StatusLine(response, response.statusText), None)
    IN  [error EXCEPT !.status = Some(response.status), !.body = Some(body)]

\* handleError, from line 136 on: the error it throws for a response that is
\* not ok, whose body text it has read.
handleErrorThrows(response, body) ==
    LET error ==
            IF response.status = 401
            THEN NetError(<<"Authorization exception">>, Some(401))
            ELSE IF startsWith(body, "<")
            THEN LET match == execDescription(body)
                     d == IF match # None THEN match[1] ELSE response.statusText
                 IN  NetError(StatusLine(response, IF d = <<>> THEN NoErrorText ELSE d), None)
            ELSE IF startsWith(body, "{")
            THEN parseBackendError(response, body)
            ELSE NetError(StatusLine(response, response.statusText), None)
    IN  [error EXCEPT !.status = Some(response.status), !.body = Some(body)]
\* handleError for a response whose body text can be read: an ok response is
\* returned as it is, any other is classified and thrown.
handleError(response, body) ==
    IF ok(response)
    THEN [kind |-> "return", response |-> response]
    ELSE [kind |-> "throw", error |-> handleErrorThrows(response, body)]

\* ------------------------------------------------------------ JSON and Number

\* The first position from p on that holds no white space (Len(s) + 1 when
\* there is none).
SkipWs(s, p) ==
    LET rest == {q \in p..Len(s) : s[q] # NL}
    IN  IF rest = {} THEN Len(s) + 1
        ELSE CHOOSE q \in rest : \A m \in rest : q <= m

\* The first position from p on that holds no digit.
SkipDigits(s, p) ==
    LET rest == {q \in p..Len(s) : s[q] # "1"}
    IN  IF rest = {} THEN Len(s) + 1
        ELSE CHOOSE q \in rest : \A m \in rest : q <= m

RECURSIVE ParseValue(_, _), ParseElements(_, _), ParseMembers(_, _)

\* The JSON grammar over tokens.  Each operator gives the position after
\* what it parsed from p on, or 0 for a syntax error.
ParseValue(s, p) ==
    LET q == SkipWs(s, p)
    IN  IF q > Len(s) THEN 0
        ELSE IF s[q] = "1" THEN SkipDigits(s, q)
        ELSE IF s[q] \in {STR, "true", "false"} THEN q + 1
        ELSE IF s[q] = "["
        THEN LET r == SkipWs(s, q + 1)
             IN  IF r <= Len(s) /\ s[r] = "]" THEN r + 1 ELSE ParseElements(s, q + 1)
        ELSE IF s[q] = "{"
        THEN LET r == SkipWs(s, q + 1)
             IN  IF r <= Len(s) /\ s[r] = "}" THEN r + 1 ELSE ParseMembers(s, q + 1)
        ELSE 0

\* value ("," value)* "]"
ParseElements(s, p) ==
    LET e == ParseValue(s, p)
        r == SkipWs(s, e)
    IN  IF e = 0 \/ r > Len(s) THEN 0
        ELSE IF s[r] = "]" THEN r + 1
        ELSE IF s[r] = "," THEN ParseElements(s, r + 1)
        ELSE 0

\* key value ("," key value)* "}"
ParseMembers(s, p) ==
    LET q == SkipWs(s, p)
        e == IF q > Len(s) \/ s[q] # KEY THEN 0 ELSE ParseValue(s, q + 1)
        r == SkipWs(s, e)
    IN  IF e = 0 \/ r > Len(s) THEN 0
        ELSE IF s[r] = "}" THEN r + 1
        ELSE IF s[r] = "," THEN ParseMembers(s, r + 1)
        ELSE 0

\* The type of the value a valid JSON text denotes.
JsonType(s) ==
    LET tok == s[SkipWs(s, 1)]
    IN  CASE tok = "[" -> "array"
          [] tok = "{" -> "object"
          [] tok = "1" -> "number"
          [] tok = STR -> "string"
          [] OTHER -> "boolean"

\* JSON.parse(text): the value, which keeps the text without its white
\* space, or a SyntaxError.
JSONparse(text) ==
    LET e == ParseValue(text, 1)
    IN  IF e # 0 /\ SkipWs(text, e) > Len(text)
        THEN [threw |-> FALSE,
              value |-> [t |-> JsonType(text),
                         json |-> SelectSeq(text, LAMBDA tok : tok # NL)]]
        ELSE [threw |-> TRUE, error |-> PlatformError("SyntaxError")]

\* Number(text): white space is trimmed, the empty text is 0, a run of
\* digits (each token the digit 1) is its decimal value, all else is NaN.
Number(text) ==
    LET t == SelectSeq(text, LAMBDA tok : tok # NL)
        trimmed == IF t = <<>> THEN <<>>
                   ELSE SubSeq(text, SkipWs(text, 1),
                               CHOOSE q \in 1..Len(text) :
                                   text[q] # NL /\ \A m \in (q + 1)..Len(text) : text[m] = NL)
        Ones[n \in 0..Len(trimmed)] == IF n = 0 THEN 0 ELSE 10 * Ones[n - 1] + 1
    IN  IF \A k \in 1..Len(trimmed) : trimmed[k] = "1"
        THEN [t |-> "number", nan |-> FALSE, num |-> Ones[Len(trimmed)]]
        ELSE [t |-> "number", nan |-> TRUE, num |-> 0]

\* Boolean(text): a string is true unless it is empty.
Boolean(text) == [t |-> "boolean", bool |-> text # <<>>]

\* ---------------------------------------------------------------- the adapter

\* The model constructors a caller passes, each named by the kind of value
\* it is: [] , {} , "" , 0 , false , undefined , and a class.
ModelConstructors ==
    {"array", "object", "string", "number", "boolean", "undefined", "function"}

\* typeof modelConstructor
typeOf(modelConstructor) ==
    IF modelConstructor \in {"array", "object"} THEN "object" ELSE modelConstructor

\* Array.isArray(modelConstructor)
isArray(modelConstructor) == modelConstructor = "array"

\* The error of the last branch of the coercion.
WrongReturnedType(modelConstructor) ==
    NetError(<<"Wrong returned type. Must by ", typeOf(modelConstructor),
               " but return ", "string">>, None)

\* The coercion of the body text of a successful response: the data, or
\* what is thrown, either by JSON.parse (outside every handler) or by the
\* last branch (which drains the slot first).
coerce(modelConstructor, primitive) ==
    IF isArray(modelConstructor) /\ startsWith(primitive, "[")
    THEN LET r == JSONparse(primitive)
         IN  IF r.threw THEN [kind |-> "parseThrow", error |-> r.error]
             ELSE [kind |-> "data", data |-> r.value]
    ELSE IF typeOf(modelConstructor) = "object" /\ startsWith(primitive, "{")
    THEN LET r == JSONparse(primitive)
         IN  IF r.threw THEN [kind |-> "parseThrow", error |-> r.error]
             ELSE [kind |-> "data", data |-> r.value]
    ELSE IF typeOf(modelConstructor) = "string"
    THEN [kind |-> "data", data |-> [t |-> "string", str |-> primitive]]
    ELSE IF typeOf(modelConstructor) = "number"
    THEN [kind |-> "data", data |-> Number(primitive)]
    ELSE IF typeOf(modelConstructor) = "boolean"
    THEN [kind |-> "data", data |-> Boolean(primitive)]
    ELSE IF typeOf(modelConstructor) = "undefined"
    THEN [kind |-> "data", data |-> [t |-> "undefined"]]
    ELSE [kind |-> "mismatch", error |-> WrongReturnedType(modelConstructor)]

\* ------------------------------------------------------------------ the logger
\* LoggerService (src/services/logger.service.ts).

\* Calls of log, warning and error in one behaviour.
MaxLogs == 2

\* enum LogLevels: a numeric ranking, ERROR lowest.
LogLevels == [ERROR |-> 0, WARN |-> 1, INFO |-> 2, DEBUG |-> 3]

\* The fixed text "Ошибка в " that a record's message starts with, and the
\* JSON text of the copied navigator.
PREFIX == "(error in) "
NAVIGATOR == "{navigator}"

\* A string in a condition: null and the empty string are falsy.
truthy(s) == s # None /\ s # Some(<<>>)

\* error instanceof NetError, error instanceof BackError.
instanceofNetError(e) == e.name = "NetError"
instanceofBackError(e) == e.name = "BackError"

\* JSON.stringify(error, Object.getOwnPropertyNames(error)) of an error
\* object: its own properties, those that are set.
stringify(e) ==
    <<"{", "\"message\":">> \o e.message
    \o (IF e.status = None THEN <<>> ELSE <<",\"status\":", ToString(e.status[1])>>)
    \o (IF e.body = None THEN <<>> ELSE <<",\"body\":">> \o e.body[1])
    \o <<"}">>

\* new ClientError(), its fields unset.
ClientError == [message |-> None, error |-> None, errorBody |-> None, browser |-> None]

\* The service after construction, with nothing done yet: events is left
\* out, nothing reads it.
LoggerService ==
    [logLevel |-> LogLevels.ERROR, loginUrl |-> None,
     console |-> <<>>, location |-> <<>>, sent |-> <<>>, made |-> 0]

\* sendClientError(clientError): the sink, to be overridden; what it is
\* called with is kept.
sendClientError(lg, clientError) == [lg EXCEPT !.sent = Append(@, clientError)]

\* The condition of line 36 with the status left out.
takesLoginRedirectAnyStatus(lg, error) ==
    error # None /\ instanceofNetError(error[1]) /\ truthy(lg.loginUrl)

\* error && error instanceof NetError && error.status === 401 && this.loginUrl
takesLoginRedirect(lg, error) ==
    /\ error # None
    /\ instanceofNetError(error[1])
    /\ error[1].status = Some(401)
    /\ truthy(lg.loginUrl)

\* processError(message, error, logLevel): the service after it and the
\* error it threw, if it threw.  Object.getOwnPropertyNames(undefined) on
\* line 49 throws a TypeError, before sendClientError is reached.
processError(lg, message, error, logLevel) ==
    IF takesLoginRedirect(lg, error)
    THEN [logger |-> [lg EXCEPT !.location = Append(@, lg.loginUrl[1])], threw |-> None]
    ELSE IF error = None
    THEN [logger |-> lg, threw |-> Some(PlatformError("TypeError"))]
    ELSE LET e == error[1]
             clientError ==
                [ClientError EXCEPT
                    !.message = Some(<<PREFIX>> \o message \o <<": ", e.name, " ">>
                                     \o e.message),
                    !.error = Some(stringify(e)),
                    !.errorBody = IF instanceofNetError(e) \/ instanceofBackError(e)
                                  THEN e.body ELSE None,
                    !.browser = Some(<<NAVIGATOR>>)]
         IN  [logger |-> sendClientError(lg, clientError), threw |-> None]

\* if (logLevel < this.logLevel)
passesBelow(lg, logLevel) == logLevel < lg.logLevel

\* if (logLevel <= this.logLevel)
passes(lg, logLevel) == logLevel <= lg.logLevel

\* The body of log, warning and error: the console method differs, and
\* only error has an error to pass on.
write(lg, method, message, error, logLevel) ==
    IF passes(lg, logLevel)
    THEN processError([lg EXCEPT !.console =
                            Append(@, [method |-> method, message |-> message,
                                       error |-> error])],
                      message, error, logLevel)
    ELSE [logger |-> lg, threw |-> None]

\* log(message, logLevel = LogLevels.INFO)
log(lg, message, logLevel) == write(lg, "log", message, None, logLevel)

\* warning(message, logLevel = LogLevels.WARN)
warning(lg, message, logLevel) == write(lg, "warn", message, None, logLevel)

\* error(message, error?, logLevel = LogLevels.ERROR)
error(lg, message, err, logLevel) == write(lg, "error", message, err, logLevel)

\* ------------------------------------------------------------------ the state

\* type Methods
Methods == {"HEAD", "GET", "POST", "DELETE", "PUT"}

VARIABLES
    \* this.requestCache: cache key -> the [res, rej] tuples pushed so far,
    \* each tuple named by the call that pushed it.
    requestCache,
    \* Each call of customRequest: its arguments, where it is suspended, the
    \* response it holds and how it ended.
    calls,
    \* The number of console.error calls of the three fan-outs.
    consoleErrors,
    \* The input and the result of the classifier and of the adapter when
    \* they are run on their own; of a call of the logger, its arguments and
    \* how it ended.
    arg, ret,
    \* The LoggerService: its fields, and what it has done to the console, to
    \* window.location and to sendClientError.
    logger

vars == <<requestCache, calls, consoleErrors, arg, ret, logger>>

CallIds == 1..MaxCalls

\* A call that has not been made.
Idle ==
    [pc |-> "idle", type |-> "GET", url |-> <<>>, body |-> None,
     modelConstructor |-> "undefined",
     throws |-> FALSE, fetches |-> 0, usedCache |-> FALSE, response |-> None,
     outcome |-> <<>>, nth |-> 0]

\* A call whose promise settled before the latest settlement: the repository
\* holds nothing of it, and no more than that it is over is kept.
Gone == [Idle EXCEPT !.pc = "gone"]

\* isCacheableRequest with only POST left out.
isCacheableRequestNotPost(type) == type # "POST"

\* const isCacheableRequest = type === "GET" || type === "HEAD"
isCacheableRequest(type) == type = "GET" \/ type = "HEAD"

\* A cache key that leaves the method out.
cacheKeyUrlOnly(type, url) == url

\* const cacheKey = `${type} ${url}`
cacheKey(type, url) == <<type, " ">> \o url

\* this.requestCache.has(key)
has(cache, key) == key \in DOMAIN cache

\* this.requestCache.set(key, value)
set(cache, key, value) ==
    [k \in DOMAIN cache \cup {key} |-> IF k = key THEN value ELSE cache[k]]

\* this.requestCache.delete(key)
delete(cache, key) == [k \in DOMAIN cache \ {key} |-> cache[k]]

\* The repository's state as one value, and the step that installs one.
State == [cache |-> requestCache, calls |-> calls, consoleErrors |-> consoleErrors]

Becomes(st) ==
    /\ requestCache' = st.cache
    /\ calls' = st.calls
    /\ consoleErrors' = st.consoleErrors

\* The calls settled so far are over.
forget(st) ==
    [st EXCEPT !.calls = [c \in CallIds |->
                            IF st.calls[c].pc = "settled" THEN Gone ELSE st.calls[c]]]

\* A promise settles: that of a joined call when a callback of its tuple is
\* called, that of an owner when its customRequest returns or throws.  nth
\* is its place among the promises settled in the same run of the code.
settle(st, c, how, value) ==
    [st EXCEPT !.calls[c].pc = "settled",
               !.calls[c].response = None,
               !.calls[c].outcome = Append(@, [how |-> how, arg |-> value]),
               !.calls[c].nth = Cardinality({d \in CallIds : st.calls[d].pc = "settled"}) + 1]

\* One callback of a tuple is called with an argument, inside try/catch.  A
\* tuple holds Functions; one that raises is caught and reported with
\* console.error.
invoke(st, waiter, how, value) ==
    [settle(st, waiter, how, value) EXCEPT
        !.consoleErrors = @ + IF st.calls[waiter].throws THEN 1 ELSE 0]

RECURSIVE forEachUntilRaise(_, _, _, _)
\* forEach inside one try/catch: the first callback that raises ends it.
forEachUntilRaise(st, tuples, how, value) ==
    IF tuples = <<>> THEN st
    ELSE IF st.calls[Head(tuples)].throws
    THEN invoke(st, Head(tuples), how, value)
    ELSE forEachUntilRaise(invoke(st, Head(tuples), how, value), Tail(tuples), how, value)

RECURSIVE forEachLastFirst(_, _, _, _)
\* forEach from the last tuple to the first.
forEachLastFirst(st, tuples, how, value) ==
    IF tuples = <<>> THEN st
    ELSE forEachLastFirst(invoke(st, tuples[Len(tuples)], how, value),
                          SubSeq(tuples, 1, Len(tuples) - 1), how, value)

RECURSIVE forEach(_, _, _, _)
\* this.requestCache.get(cacheKey)?.forEach(tuple => ...): in insertion order.
forEach(st, tuples, how, value) ==
    IF tuples = <<>> THEN st
    ELSE forEach(invoke(st, Head(tuples), how, value), Tail(tuples), how, value)

\* The fan-out without the delete that follows it.
drainKeepSlot(st, type, key, how, value) ==
    IF isCacheableRequest(type) /\ has(st.cache, key)
    THEN forEach(st, st.cache[key], how, value)
    ELSE st

\* The guarded fan-out of lines 51-62, 81-91 and 96-106: every tuple of the
\* slot is called, then the slot is deleted.
drain(st, type, key, how, value) ==
    IF isCacheableRequest(type) /\ has(st.cache, key)
    THEN [forEach(st, st.cache[key], how, value) EXCEPT !.cache = delete(st.cache, key)]
    ELSE st

\* A catch block that only throws e again.
catchRethrowOnly(st, c, e) == settle(st, c, "reject", e)

\* catch (e) { ... throw e }: the slot is drained with e, and the call throws e.
catch(st, c, e) ==
    LET call == st.calls[c]
    IN  settle(drain(st, call.type, cacheKey(call.type, call.url), "reject", e),
               c, "reject", e)

\* Lines 66-107 with the last branch throwing at once.
afterTextThrowAtOnce(st, c, primitive) ==
    LET call == st.calls[c]
        key == cacheKey(call.type, call.url)
        r == coerce(call.modelConstructor, primitive)
    IN  IF r.kind \in {"parseThrow", "mismatch"}
        THEN settle(st, c, "reject", r.error)
        ELSE settle(drain(st, call.type, key, "resolve", r.data), c, "resolve", r.data)

\* Lines 66-107, run on the body text of a successful response.
afterText(st, c, primitive) ==
    LET call == st.calls[c]
        key == cacheKey(call.type, call.url)
        r == coerce(call.modelConstructor, primitive)
    IN  IF r.kind = "parseThrow"
        THEN settle(st, c, "reject", r.error)
        ELSE IF r.kind = "mismatch"
        THEN settle(drain(st, call.type, key, "reject", r.error), c, "reject", r.error)
        ELSE settle(drain(st, call.type, key, "resolve", r.data), c, "resolve", r.data)

\* ---------------------------------------------------------------- the inputs

\* The requests made in the behaviours of the repository: both cacheable
\* methods, two urls, two model constructors for one key, and a method that
\* is not cacheable.
Requests ==
    {[type |-> "GET", url |-> <<"/a">>, body |-> None,
      modelConstructor |-> "object"],
     [type |-> "GET", url |-> <<"/a">>, body |-> None,
      modelConstructor |-> "string"],
     [type |-> "HEAD", url |-> <<"/a">>, body |-> None,
      modelConstructor |-> "object"],
     [type |-> "GET", url |-> <<"/b">>, body |-> None,
      modelConstructor |-> "object"],
     [type |-> "POST", url |-> <<"/a">>, body |-> None,
      modelConstructor |-> "object"]}

\* The requests made in the behaviours that are about the methods that are
\* not cacheable: each of them, beside a cacheable one to the same url.
BypassRequests ==
    {[type |-> "POST", url |-> <<"/a">>, body |-> None,
      modelConstructor |-> "object"],
     [type |-> "PUT", url |-> <<"/a">>, body |-> None,
      modelConstructor |-> "object"],
     [type |-> "DELETE", url |-> <<"/a">>, body |-> None,
      modelConstructor |-> "object"],
     [type |-> "GET", url |-> <<"/a">>, body |-> None,
      modelConstructor |-> "object"]}

\* A request body: an object, which fetch is given as JSON text.
SomeBody == Some([t |-> "object", json |-> <<"{", "}">>])

\* The requests made in the behaviours that are about the cache keys: one
\* key with and without a body, the other method for its url, and another
\* url for its method.
KeyRequests ==
    {[type |-> "GET", url |-> <<"/a">>, body |-> None, modelConstructor |-> "object"],
     [type |-> "GET", url |-> <<"/a">>, body |-> SomeBody, modelConstructor |-> "object"],
     [type |-> "HEAD", url |-> <<"/a">>, body |-> None, modelConstructor |-> "object"],
     [type |-> "GET", url |-> <<"/b">>, body |-> None, modelConstructor |-> "object"]}

\* What fetch resolves with: the status and the status text of a response.
Responses ==
    {[status |-> 200, statusText |-> <<"OK">>],
     [status |-> 500, statusText |-> <<>>]}

\* The body texts read in the behaviours of the repository: an object, a
\* truncated object, and plain text.
Bodies == {<<"{", "}">>, <<"{">>, <<"a">>}

\* The error fetch rejects with, and the one Response.text rejects with.
FetchFailed == PlatformError("TypeError: Failed to fetch")
ReadFailed == PlatformError("TypeError: body stream failed")

\* ---------------------------------------------------------------- the actions

Init ==
    /\ requestCache = <<>>
    /\ calls = [c \in CallIds |-> Idle]
    /\ consoleErrors = 0
    /\ arg = None
    /\ ret = None
    /\ logger = LoggerService

\* customRequest up to its first await: it joins the slot of its key, or
\* makes one (GET, HEAD) and calls fetch.  throws says whether the callbacks
\* of the tuple a joining call pushes raise when called; an owner pushes none.
CustomRequest(c, type, url, body, modelConstructor, throws) ==
    /\ calls[c].pc = "idle"
    /\ c > 1 => calls[c - 1].pc # "idle"
    /\ LET key == cacheKey(type, url)
           call == [Idle EXCEPT !.type = type, !.url = url, !.body = body,
                                !.modelConstructor = modelConstructor,
                                !.usedCache = isCacheableRequest(type)]
       IN  IF isCacheableRequest(type) /\ has(requestCache, key)
           THEN /\ requestCache' = [requestCache EXCEPT ![key] = Append(@, c)]
                /\ calls' = [calls EXCEPT ![c] =
                                [call EXCEPT !.pc = "joined", !.throws = throws]]
           ELSE /\ ~throws
                /\ requestCache' = IF isCacheableRequest(type)
                                   THEN set(requestCache, key, <<>>)
                                   ELSE requestCache
                /\ calls' = [calls EXCEPT ![c] =
                                [call EXCEPT !.pc = "awaitFetch", !.fetches = 1]]
    /\ UNCHANGED <<consoleErrors, arg, ret, logger>>

\* fetch rejects: the catch block runs.
FetchRejects(c) ==
    /\ calls[c].pc = "awaitFetch"
    /\ Becomes(catch(forget(State), c, FetchFailed))
    /\ UNCHANGED <<arg, ret, logger>>

\* fetch resolves: handleError returns an ok response, whose text is then
\* read (line 49), and reads the text of any other (line 135).  A fetch with
\* method GET or HEAD and a body never resolves: it rejects with a TypeError.
FetchFulfils(c, response) ==
    /\ calls[c].pc = "awaitFetch"
    /\ ~(calls[c].type \in {"GET", "HEAD"} /\ calls[c].body # None)
    /\ calls' = [calls EXCEPT ![c].response = Some(response),
                              ![c].pc = IF ok(response) THEN "awaitText"
                                        ELSE "awaitErrorText"]
    /\ UNCHANGED <<requestCache, consoleErrors, arg, ret, logger>>

\* response.text() rejects, in handleError or in customRequest: the catch
\* block runs.
TextRejects(c) ==
    /\ calls[c].pc \in {"awaitText", "awaitErrorText"}
    /\ Becomes(catch(forget(State), c, ReadFailed))
    /\ UNCHANGED <<arg, ret, logger>>

\* response.text() resolves in handleError, which throws the classified
\* error: the catch block runs.
ErrorTextFulfils(c, body) ==
    /\ calls[c].pc = "awaitErrorText"
    /\ Becomes(catch(forget(State), c, handleErrorThrows(calls[c].response[1], body)))
    /\ UNCHANGED <<arg, ret, logger>>

\* response.text() resolves in customRequest: lines 66-107 run.
TextFulfils(c, primitive) ==
    /\ calls[c].pc = "awaitText"
    /\ Becomes(afterText(forget(State), c, primitive))
    /\ UNCHANGED <<arg, ret, logger>>

\* One step of the repository, its requests drawn from rs.
Step(rs) ==
    \E c \in CallIds :
        \/ \E r \in rs, throws \in BOOLEAN :
                CustomRequest(c, r.type, r.url, r.body, r.modelConstructor, throws)
        \/ FetchRejects(c)
        \/ \E response \in Responses : FetchFulfils(c, response)
        \/ TextRejects(c)
        \/ \E body \in Bodies : ErrorTextFulfils(c, body)
        \/ \E body \in Bodies : TextFulfils(c, body)

Next == Step(Requests)

Spec == Init /\ [][Next]_vars

NextBypass == Step(BypassRequests)

SpecBypass == Init /\ [][NextBypass]_vars

NextKeys == Step(KeyRequests)

SpecKeys == Init /\ [][NextKeys]_vars

\* The network answers every call made to it: a fetch that is pending
\* resolves or rejects, and so does a body read that is pending.
Network(c) ==
    \/ FetchRejects(c)
    \/ \E response \in Responses : FetchFulfils(c, response)
    \/ TextRejects(c)
    \/ \E body \in Bodies : ErrorTextFulfils(c, body)
    \/ \E body \in Bodies : TextFulfils(c, body)

SpecFair == Init /\ [][Next]_vars /\ \A c \in CallIds : WF_vars(Network(c))

\* ------------------------------------------- the classifier and the adapter alone

\* The responses and the body texts the classifier is run on.
ClassifierResponses ==
    [status : {200, 401, 404, 500}, statusText : {<<>>, <<"Not Found">>}]

ClassifierBodies == TextsUpTo({"<", "{", "a", DOPEN, UCLOSE, NL}, MaxBodyLen)

\* The body texts the adapter is run on.
AdapterBodies ==
    TextsUpTo({"[", "]", "{", "}", ",", "1", "a", "true", "false", KEY, STR, NL},
              MaxBodyLen)

InitClassifier ==
    /\ requestCache = <<>>
    /\ calls = [c \in CallIds |-> Idle]
    /\ consoleErrors = 0
    /\ arg \in {Some([response |-> r, body |-> b]) :
                    r \in ClassifierResponses, b \in ClassifierBodies}
    /\ ret = None
    /\ logger = LoggerService

\* handleError runs on a response whose body text is arg's.
Classify ==
    /\ arg # None /\ ret = None
    /\ ret' = Some(handleError(arg[1].response, arg[1].body))
    /\ UNCHANGED <<requestCache, calls, consoleErrors, arg, logger>>

SpecClassifier == InitClassifier /\ [][Classify]_vars

InitAdapter ==
    /\ requestCache = <<>>
    /\ calls = [c \in CallIds |-> Idle]
    /\ consoleErrors = 0
    /\ arg \in {Some([modelConstructor |-> mc, primitive |-> b]) :
                    mc \in ModelConstructors, b \in AdapterBodies}
    /\ ret = None
    /\ logger = LoggerService

\* The coercion of lines 66-93 runs on arg's body text.
Coerce ==
    /\ arg # None /\ ret = None
    /\ ret' = Some(coerce(arg[1].modelConstructor, arg[1].primitive))
    /\ UNCHANGED <<requestCache, calls, consoleErrors, arg, logger>>

SpecAdapter == InitAdapter /\ [][Coerce]_vars

\* ------------------------------------------------------------- the logger alone

\* The messages, the login urls and the errors the logger is called with: no
\* error, what handleError throws for a 401 and for a 500, a backend error
\* (one of them with status 401), and an error of the platform.
LoggerMessages == {<<"m">>}

LoginUrls == {None, Some(<<>>), Some(<<"/login">>)}

LoggerErrors ==
    {None,
     Some(handleErrorThrows([status |-> 401, statusText |-> <<>>], <<"a">>)),
     Some(handleErrorThrows([status |-> 500, statusText |-> <<>>], <<"a">>)),
     Some(handleErrorThrows([status |-> 500, statusText |-> <<>>], <<"{", "}">>)),
     Some([BackError(<<"401 - ">>) EXCEPT !.status = Some(401)]),
     Some(FetchFailed)}

Levels == {LogLevels[n] : n \in DOMAIN LogLevels}

\* logger.logLevel = l
SetLogLevel(l) ==
    /\ logger' = [logger EXCEPT !.logLevel = l]
    /\ UNCHANGED <<requestCache, calls, consoleErrors, arg, ret>>

\* logger.loginUrl = u
SetLoginUrl(u) ==
    /\ logger' = [logger EXCEPT !.loginUrl = u]
    /\ UNCHANGED <<requestCache, calls, consoleErrors, arg, ret>>

\* One call of the logger returns or throws.
Called(method, message, err, logLevel, r) ==
    /\ logger' = [r.logger EXCEPT !.made = @ + 1]
    /\ arg' = Some([method |-> method, message |-> message, error |-> err,
                    logLevel |-> logLevel])
    /\ ret' = Some([threw |-> r.threw])
    /\ UNCHANGED <<requestCache, calls, consoleErrors>>

Log(message, logLevel) ==
    /\ logger.made < MaxLogs
    /\ Called("log", message, None, logLevel, log(logger, message, logLevel))

Warning(message, logLevel) ==
    /\ logger.made < MaxLogs
    /\ Called("warning", message, None, logLevel, warning(logger, message, logLevel))

Error(message, err, logLevel) ==
    /\ logger.made < MaxLogs
    /\ Called("error", message, err, logLevel, error(logger, message, err, logLevel))

NextLogger ==
    \/ \E l \in Levels : SetLogLevel(l)
    \/ \E u \in LoginUrls : SetLoginUrl(u)
    \/ \E m \in LoggerMessages, l \in Levels : Log(m, l)
    \/ \E m \in LoggerMessages, l \in Levels : Warning(m, l)
    \/ \E m \in LoggerMessages, e \in LoggerErrors, l \in Levels : Error(m, e, l)

SpecLogger == Init /\ [][NextLogger]_vars

\* ------------------------------------------------------------------ the claims

\* The cache key of a call, whether its method is GET or HEAD, whether it
\* waits for the network (which only the call that called fetch does), and
\* whether this step ends it.
keyOf(call) == <<call.type, " ">> \o call.url
Cacheable(call) == call.type \in {"GET", "HEAD"}
InNetwork(call) == call.pc \in {"awaitFetch", "awaitText", "awaitErrorText"}
Finishes(c) == InNetwork(calls[c]) /\ calls'[c].pc = "settled"
Settled == {c \in CallIds : calls[c].pc = "settled"}
Rejected(call, e) == call.outcome = <<[how |-> "reject", arg |-> e]>>

\* The tuples of the slot of a call's key, each named by the call that
\* pushed it.
Waiters(call) ==
    IF keyOf(call) \in DOMAIN requestCache
    THEN {requestCache[keyOf(call)][i] : i \in 1..Len(requestCache[keyOf(call)])}
    ELSE {}

\* C1: calls with the same method in {GET, HEAD} and the same url made while
\* the first is in flight share one fetch and one outcome: no two calls of
\* one cache key wait for the network at once, a joined call has called no
\* fetch, and when the call that called fetch ends, every call that joined
\* its slot has ended with it, once and in the same way.
C1_OneFetchOneOutcome ==
    /\ [](\A c, d \in CallIds :
            (c # d /\ InNetwork(calls[c]) /\ InNetwork(calls[d]) /\ Cacheable(calls[c]))
                => keyOf(calls[c]) # keyOf(calls[d]))
    /\ [](\A c \in CallIds : calls[c].pc = "joined" => calls[c].fetches = 0)
    /\ [][\A c \in CallIds :
            (Finishes(c) /\ Cacheable(calls[c]))
                => /\ Len(calls'[c].outcome) = 1
                   /\ \A w \in Waiters(calls[c]) :
                        calls'[w].outcome = calls'[c].outcome]_vars

\* C2: a POST, PUT or DELETE call calls fetch itself, whatever else is in
\* flight, never joins, never looks into requestCache, leaves no entry in
\* it, and no step of it changes requestCache.
C2_Bypass ==
    /\ [](\A c \in CallIds :
            (calls[c].pc \notin {"idle", "gone"} /\ ~Cacheable(calls[c]))
                => /\ calls[c].fetches = 1
                   /\ calls[c].pc # "joined"
                   /\ ~calls[c].usedCache)
    /\ [](\A key \in DOMAIN requestCache : key[1] \in {"GET", "HEAD"})
    /\ [][\A c \in CallIds :
            (/\ calls'[c] # calls[c]
             /\ calls[c].pc = "idle" \/ InNetwork(calls[c])
             /\ ~Cacheable(calls'[c]))
                => requestCache' = requestCache]_vars

\* C2's case: two identical PUT calls wait for the network at once, beside a
\* slot of the cache.
C2_Witness ==
    \E c, d \in CallIds :
        /\ c # d
        /\ DOMAIN requestCache # {}
        /\ calls[c].type = "PUT" /\ calls[d].type = "PUT"
        /\ calls[c].url = calls[d].url
        /\ InNetwork(calls[c]) /\ InNetwork(calls[d])

\* C3: when the call that owns a cacheable key ends, however it ends,
\* requestCache holds no entry for the key, and a call joins only a slot
\* whose owner is in flight (so the next call of the key calls fetch).
C3_SlotGoneWhenOwnerEnds ==
    [][/\ \A c \in CallIds :
            (Finishes(c) /\ Cacheable(calls[c]))
                => ~(keyOf(calls[c]) \in DOMAIN requestCache')
       /\ \A c \in CallIds :
            (calls[c].pc = "idle" /\ calls'[c].pc = "joined")
                => \E o \in CallIds :
                        InNetwork(calls[o]) /\ keyOf(calls[o]) = keyOf(calls'[c])]_vars

\* C4: when fetch fails for a GET or HEAD call, every call that joined its
\* slot is rejected with the error fetch raised, the slot is deleted, and
\* the call itself throws that error.
C4_TransportFailure ==
    [][\A c \in CallIds :
            (calls[c].pc = "awaitFetch" /\ calls'[c].pc = "settled" /\ Cacheable(calls[c]))
                => /\ Rejected(calls'[c], FetchFailed)
                   /\ \A w \in Waiters(calls[c]) : Rejected(calls'[w], FetchFailed)
                   /\ ~(keyOf(calls[c]) \in DOMAIN requestCache')]_vars

\* C4's case: fetch has failed for a call that another call had joined.
C4_Witness ==
    \E c, w \in Settled :
        /\ calls[c].fetches = 1 /\ calls[w].fetches = 0
        /\ Cacheable(calls[c]) /\ keyOf(calls[w]) = keyOf(calls[c])
        /\ Rejected(calls[c], FetchFailed) /\ Rejected(calls[w], FetchFailed)
        /\ ~(keyOf(calls[c]) \in DOMAIN requestCache)

\* A step in which call c runs one of the three fan-outs.
FanOut(c) ==
    /\ Finishes(c) /\ Cacheable(calls[c])
    /\ keyOf(calls[c]) \in DOMAIN requestCache
    /\ \/ ~(keyOf(calls[c]) \in DOMAIN requestCache')
       \/ \E w \in Waiters(calls[c]) : calls'[w] # calls[w]

\* C5: in a fan-out over a slot in which the callback of some tuple raises,
\* every tuple is still called (each with what the owner ends with), each
\* raise is caught and reported once, the slot is deleted, and the owner
\* ends as the callbacks were told.
C5_ThrowingCallback ==
    [][\A c \in CallIds :
            (FanOut(c) /\ \E w \in Waiters(calls[c]) : calls[w].throws)
                => /\ \A w \in Waiters(calls[c]) :
                        /\ calls'[w].pc = "settled"
                        /\ calls'[w].outcome = calls'[c].outcome
                   /\ Len(calls'[c].outcome) = 1
                   /\ ~(keyOf(calls[c]) \in DOMAIN requestCache')
                   /\ consoleErrors' = consoleErrors
                        + Cardinality({w \in Waiters(calls[c]) : calls[w].throws})]_vars

\* C5's case: a fan-out has reached a tuple pushed after one whose callback
\* raised.
C5_Witness ==
    \E c, v, w \in Settled :
        /\ calls[c].fetches = 1 /\ v < w
        /\ calls[v].fetches = 0 /\ calls[w].fetches = 0
        /\ calls[v].throws /\ ~calls[w].throws
        /\ calls[w].outcome = calls[c].outcome
        /\ consoleErrors > 0

\* The rejection of a call with an error handleError classified for
\* response r.
ClassifiedRejection(call, r) ==
    /\ Len(call.outcome) = 1
    /\ call.outcome[1].how = "reject"
    /\ call.outcome[1].arg.name \in {"NetError", "BackError"}
    /\ call.outcome[1].arg.status = <<r.status>>
    /\ \E b \in Bodies : call.outcome[1].arg.body = <<b>>

\* handleError lets a response through only when its status is in 200-299.
OnlySuccessPasses ==
    \A c \in CallIds :
        calls[c].pc = "awaitText"
            => /\ calls[c].response[1].status >= 200
               /\ calls[c].response[1].status <= 299

\* A step that ends a call holding a response whose status is not in 200-299.
EndsNonSuccess(c) ==
    /\ Finishes(c)
    /\ calls[c].response # <<>>
    /\ calls[c].response[1].status < 200 \/ calls[c].response[1].status > 299

\* C6 as stated: a call whose response has a status outside 200-299 never
\* resolves: handleError raises, and the call and every call that joined it
\* are rejected with the classified error; handleError lets a response
\* through only when its status is in 200-299.
C6_NonSuccessClassified ==
    /\ []OnlySuccessPasses
    /\ [][\A c \in CallIds :
            EndsNonSuccess(c)
                => /\ ClassifiedRejection(calls'[c], calls[c].response[1])
                   /\ \A w \in Waiters(calls[c]) :
                        calls'[w].outcome = calls'[c].outcome]_vars

\* C6 as amended: the rejection is with the classified error or, when the
\* body text of the response cannot be read, with the error of the read.
C6_NonSuccessRejected ==
    /\ []OnlySuccessPasses
    /\ [][\A c \in CallIds :
            EndsNonSuccess(c)
                => /\ \/ ClassifiedRejection(calls'[c], calls[c].response[1])
                      \/ Rejected(calls'[c], ReadFailed)
                   /\ \A w \in Waiters(calls[c]) :
                        calls'[w].outcome = calls'[c].outcome]_vars

\* C6's case: a call and one that joined it are rejected with the error
\* classified for a response of status 500.
C6_Witness ==
    \E c, w \in Settled :
        /\ calls[c].fetches = 1 /\ calls[w].fetches = 0
        /\ ClassifiedRejection(calls[c], [status |-> 500])
        /\ calls[w].outcome = calls[c].outcome

\* The rejection of a call with the error of the last branch of the coercion.
MismatchRejection(call) ==
    /\ Len(call.outcome) = 1
    /\ call.outcome[1].how = "reject"
    /\ call.outcome[1].arg.name = "NetError"
    /\ call.outcome[1].arg.message[1] = "Wrong returned type. Must by "

\* C10: when no rule of the coercion matches for a GET or HEAD call, every
\* call that joined its slot is rejected with the same error as the call,
\* and the slot is deleted.
C10_TypeMismatch ==
    [][\A c \in CallIds :
            (/\ calls[c].pc = "awaitText" /\ calls'[c].pc = "settled"
             /\ Cacheable(calls[c]) /\ MismatchRejection(calls'[c]))
                => /\ \A w \in Waiters(calls[c]) :
                        calls'[w].outcome = calls'[c].outcome
                   /\ ~(keyOf(calls[c]) \in DOMAIN requestCache')]_vars

\* C10's case: a call and one that joined it are rejected with the error of
\* the last branch.
C10_Witness ==
    \E c, w \in Settled :
        /\ calls[c].fetches = 1 /\ calls[w].fetches = 0
        /\ MismatchRejection(calls[c]) /\ MismatchRejection(calls[w])
        /\ calls[w].outcome = calls[c].outcome
        /\ ~(keyOf(calls[c]) \in DOMAIN requestCache)

\* What the classifier was run on and what it gave.
Classified == ret # <<>> /\ arg # <<>> /\ "response" \in DOMAIN arg[1]
NonSuccess(r) == r.status < 200 \/ r.status > 299

\* C7: for status 401 the classifier raises a NetError with the message
\* "Authorization exception", status 401 and the body text as body, whatever
\* the body text is.
C7_Unauthorized ==
    (Classified /\ arg[1].response.status = 401)
        => ret[1] = [kind |-> "throw",
                     error |-> [name |-> "NetError",
                                message |-> <<"Authorization exception">>,
                                status |-> <<401>>,
                                body |-> <<arg[1].body>>]]

\* C7's case: the classifier has run on a 401 response whose body text
\* starts with "{" and has a "<" in it.
C7_Witness ==
    /\ Classified /\ arg[1].response.status = 401
    /\ Len(arg[1].body) > 1 /\ arg[1].body[1] = "{" /\ arg[1].body[2] = "<"

\* The places <<i, j>> of a body text where the description pattern matches
\* from token i to token j, and what it captures at the first of them.
Matches(b) ==
    {m \in (1..Len(b)) \X (1..Len(b)) :
        /\ b[m[1]] = DOPEN /\ b[m[2]] = UCLOSE /\ m[2] > m[1] + 1
        /\ \A k \in (m[1] + 1)..(m[2] - 1) : b[k] # NL}

Captured(b) ==
    LET m == CHOOSE m \in Matches(b) :
                \A n \in Matches(b) : m[1] < n[1] \/ (m[1] = n[1] /\ m[2] <= n[2])
    IN  [k \in 1..(m[2] - m[1] - 1) |-> b[m[1] + k]]

\* C8: for a status outside 200-299 other than 401 the first character of
\* the body text decides: "<" gives a NetError "<status> - <d>", d being the
\* captured description, else the status text, else the fallback; "{" gives
\* a BackError "<status> - <statusText>"; all else gives a NetError
\* "<status> - <statusText>".  The error's status is the response's and its
\* body is the body text.
C8_BodyShape ==
    (Classified /\ NonSuccess(arg[1].response) /\ arg[1].response.status # 401)
        => LET r == arg[1].response
               b == arg[1].body
               e == ret[1].error
               first == IF b = <<>> THEN "" ELSE IF b[1] \in {DOPEN, UCLOSE} THEN "<" ELSE b[1]
               d == IF Matches(b) # {} THEN Captured(b)
                    ELSE IF r.statusText # <<>> THEN r.statusText
                    ELSE NoErrorText
           IN  /\ ret[1].kind = "throw"
               /\ e.status = <<r.status>>
               /\ e.body = <<b>>
               /\ first = "<" =>
                    e.name = "NetError" /\ e.message = <<ToString(r.status), " - ">> \o d
               /\ first = "{" =>
                    e.name = "BackError"
                        /\ e.message = <<ToString(r.status), " - ">> \o r.statusText
               /\ first \notin {"<", "{"} =>
                    e.name = "NetError"
                        /\ e.message = <<ToString(r.status), " - ">> \o r.statusText

\* C8's case: the classifier has run on a 500 response with no status text
\* whose body text starts with "<" and holds no description.
C8_Witness ==
    /\ Classified
    /\ arg[1].response = [status |-> 500, statusText |-> <<>>]
    /\ arg[1].body = <<"<", "a">>
    /\ ret[1].error.message = <<"500", " - ">> \o NoErrorText

\* What the adapter was run on and what it gave.
Coerced == ret # <<>> /\ arg # <<>> /\ "primitive" \in DOMAIN arg[1]

\* C9: with an array as model constructor the coercion gives data only for a
\* body text that starts with "[", and the data is an array; for any other
\* body text it raises the error of the last branch.
C9_ArrayOnly ==
    (Coerced /\ arg[1].modelConstructor = "array")
        => LET p == arg[1].primitive
               bracket == p # <<>> /\ p[1] = "["
           IN  /\ ret[1].kind = "data" => (bracket /\ ret[1].data.t = "array")
               /\ ~bracket =>
                    /\ ret[1].kind = "mismatch"
                    /\ ret[1].error.name = "NetError"
                    /\ ret[1].error.message[1] = "Wrong returned type. Must by "


\* A step that is one call of log, warning or error, whether the level it
\* was called with passes the threshold, whether it assigned
\* window.location.href, and how many records it handed to sendClientError.
LoggerCall == logger'.made = logger.made + 1
PassesThreshold == arg'[1].logLevel <= logger.logLevel
Redirects == Len(logger'.location) = Len(logger.location) + 1
Delivered == Len(logger'.sent) - Len(logger.sent)

\* C11: every call of log, warning or error whose level passes the
\* threshold and that does not take the login redirect hands exactly one
\* record to sendClientError, with an error object and without one.
C11_OneRecord ==
    [][(LoggerCall /\ PassesThreshold /\ ~Redirects) => Delivered = 1]_vars

\* The error of a call is a NetError with status 401 while loginUrl is set
\* and not empty.
Unauthorized401 ==
    /\ arg'[1].error # None
    /\ arg'[1].error[1].name = "NetError"
    /\ arg'[1].error[1].status = <<401>>
    /\ logger.loginUrl \notin {None, <<<<>>>>}

\* C12: a call that passes the threshold with a NetError of status 401 while
\* loginUrl is set assigns loginUrl to window.location.href and hands no
\* record to sendClientError; no other call assigns window.location.href.
C12_LoginRedirect ==
    [][LoggerCall =>
        IF PassesThreshold /\ Unauthorized401
        THEN /\ logger'.location = Append(logger.location, logger.loginUrl[1])
             /\ logger'.sent = logger.sent
        ELSE logger'.location = logger.location]_vars

\* C12's case: of two calls made, the first, with a 401, went to the login
\* url and left no record, and the second, with a 500, left a record and
\* went nowhere.
C12_Witness ==
    /\ logger.made = 2
    /\ logger.location = <<<<"/login">>>>
    /\ Len(logger.console) = 2
    /\ logger.console[1].error # None /\ logger.console[1].error[1].status = <<401>>
    /\ logger.console[2].error # None /\ logger.console[2].error[1].status = <<500>>
    /\ Len(logger.sent) = 1

\* What a call of the logger did: console output, a redirect, a record, or
\* an error raised to the caller.
HasEffect ==
    \/ logger'.console # logger.console
    \/ logger'.location # logger.location
    \/ logger'.sent # logger.sent
    \/ ret'[1].threw # None

\* C13: a call with level L has an effect if and only if L <= logLevel, and
\* a call with L > logLevel leaves the service as it was.
C13_Threshold ==
    [][LoggerCall =>
        /\ HasEffect <=> PassesThreshold
        /\ ~PassesThreshold =>
                /\ logger' = [logger EXCEPT !.made = @ + 1]
                /\ ret'[1].threw = None]_vars

\* C13's case: of two calls made, one was suppressed and one wrote to the
\* console, at the threshold itself.
C13_Witness ==
    /\ logger.made = 2
    /\ Len(logger.console) = 1
    /\ arg # None /\ "logLevel" \in DOMAIN arg[1]
    /\ arg[1].logLevel = logger.logLevel
    /\ arg[1].logLevel = LogLevels.WARN
    /\ logger.sent # <<>>

\* C14: when the network answers every fetch and every body read, each call
\* that joined the slot of a key is settled in the end, resolved or
\* rejected, whatever the status and the body text of the response are.
C14_EveryCallerSettles ==
    \A c \in CallIds :
        (calls[c].pc = "joined") ~> (calls[c].pc \in {"settled", "gone"})

\* The tuples of the slot of a call's key in the order they were pushed, and
\* whether this step deletes that slot.
Joined(call) ==
    IF keyOf(call) \in DOMAIN requestCache THEN requestCache[keyOf(call)] ELSE <<>>
SlotSettles(c) ==
    /\ Finishes(c)
    /\ keyOf(calls[c]) \in DOMAIN requestCache
    /\ keyOf(calls[c]) \notin DOMAIN requestCache'

\* C15: when a slot settles, the callbacks of its tuples are called in the
\* order the calls joined, the first that joined first, and all of them
\* before the owner's own call returns or throws.
C15_JoinOrder ==
    [][\A c \in CallIds :
        SlotSettles(c) =>
            LET W == Joined(calls[c])
            IN  /\ \A i \in 1..Len(W) : calls'[W[i]].pc = "settled" /\ calls'[W[i]].nth = i
                /\ calls'[c].nth = Len(W) + 1]_vars

\* C15's case: two calls joined the slot of the first, and the three were
\* settled in one run, the two that joined before the owner.
C15_Witness ==
    /\ calls[1].pc = "settled" /\ calls[1].fetches = 1 /\ calls[1].nth = 3
    /\ calls[2].pc = "settled" /\ calls[2].fetches = 0 /\ calls[2].nth = 1
    /\ calls[3].pc = "settled" /\ calls[3].fetches = 0 /\ calls[3].nth = 2
    /\ calls[2].outcome = calls[1].outcome /\ calls[3].outcome = calls[1].outcome

\* The shape category of a value a call resolved with, named as the model
\* constructor that declares it.
ShapeOf(data) == data.t

\* C16: every call that resolves, whether it called fetch or joined a slot,
\* resolves with a value of the shape its own model constructor declares.
C16_OwnShape ==
    \A c \in CallIds :
        (calls[c].pc = "settled" /\ calls[c].outcome[1].how = "resolve")
            => ShapeOf(calls[c].outcome[1].arg) = calls[c].modelConstructor

\* The calls that wait for the network for a key.
OwnersInFlight(key) == {o \in CallIds : InNetwork(calls[o]) /\ keyOf(calls[o]) = key}

\* C17: the fan-out and the deletion of a slot are one run of the code, so a
\* slot is in requestCache only while the call that made it waits for the
\* network, and a call that has joined and is not settled yet is in such a
\* slot: none is in a slot whose owner's network call has settled.
C17_NoLateJoin ==
    /\ \A key \in DOMAIN requestCache : OwnersInFlight(key) # {}
    /\ \A c \in CallIds :
            calls[c].pc = "joined"
                => /\ OwnersInFlight(keyOf(calls[c])) # {}
                   /\ c \in Waiters(calls[c])

\* C18: with a boolean as model constructor the coercion gives the boolean
\* the body text denotes, true for `true` and false for `false`; with a
\* string it gives the body text itself, unparsed; with undefined it gives
\* undefined for every body text.
C18_Scalars ==
    Coerced =>
        LET mc == arg[1].modelConstructor
            p == arg[1].primitive
        IN  /\ (mc = "boolean" /\ p = <<"true">>)
                    => ret[1].kind = "data" /\ ret[1].data = [t |-> "boolean", bool |-> TRUE]
            /\ (mc = "boolean" /\ p = <<"false">>)
                    => ret[1].kind = "data" /\ ret[1].data = [t |-> "boolean", bool |-> FALSE]
            /\ mc = "string"
                    => ret[1].kind = "data" /\ ret[1].data = [t |-> "string", str |-> p]
            /\ mc = "undefined"
                    => ret[1].kind = "data" /\ ret[1].data = [t |-> "undefined"]

\* The calls whose tuples are in some slot of the cache.
InSomeSlot(cache) ==
    UNION {{cache[key][i] : i \in 1..Len(cache[key])} : key \in DOMAIN cache}

Made(c) == calls[c].pc = "idle" /\ calls'[c].pc # "idle"
SameTarget(a, b) == a.type = b.type /\ a.url = b.url
Pending(call) == call.pc = "joined" \/ InNetwork(call)

\* C20: the slot of a call is that of its method and url and of nothing
\* else.  A slot holds only tuples of calls of its method and url; a GET or
\* HEAD call whose method and url have no slot makes one and calls fetch
\* itself, whatever other slots there are; one that is made while a call of
\* its method and url waits for the network joins that call's slot, also
\* with another body; and the step that ends a call leaves every other
\* slot, and every pending call of another method or url, as they were.
C20_KeyOfMethodAndUrl ==
    /\ [](\A key \in DOMAIN requestCache :
            \A i \in 1..Len(requestCache[key]) :
                keyOf(calls[requestCache[key][i]]) = key)
    /\ [][\A c \in CallIds :
            /\ (Made(c) /\ Cacheable(calls'[c]))
                => LET key == keyOf(calls'[c])
                   IN  IF key \in DOMAIN requestCache
                       THEN /\ calls'[c].pc = "joined" /\ calls'[c].fetches = 0
                            /\ requestCache' =
                                    [requestCache EXCEPT ![key] = Append(@, c)]
                       ELSE /\ calls'[c].pc = "awaitFetch" /\ calls'[c].fetches = 1
                            /\ DOMAIN requestCache' = DOMAIN requestCache \cup {key}
                            /\ requestCache'[key] = <<>>
                            /\ \A k \in DOMAIN requestCache :
                                    requestCache'[k] = requestCache[k]
            /\ (Made(c) /\ Cacheable(calls'[c])
                    /\ \E o \in CallIds : InNetwork(calls[o]) /\ SameTarget(calls[o], calls'[c]))
                => calls'[c].pc = "joined"
            /\ Finishes(c)
                => /\ \A k \in DOMAIN requestCache \ {keyOf(calls[c])} :
                            k \in DOMAIN requestCache' /\ requestCache'[k] = requestCache[k]
                   /\ \A d \in CallIds :
                            (Pending(calls[d]) /\ ~SameTarget(calls[d], calls[c]))
                                => calls'[d] = calls[d]]_vars

\* C20's case: a GET of /a waits for the network, a GET of /a with a body
\* has joined its slot, and a HEAD of /a has made a slot of its own and
\* called fetch.
C20_Witness ==
    /\ calls[1].pc = "awaitFetch" /\ calls[1].type = "GET" /\ calls[1].body = None
    /\ calls[2].pc = "joined" /\ calls[2].type = "GET" /\ calls[2].body # None
    /\ calls[2].url = calls[1].url /\ calls[2].fetches = 0
    /\ calls[3].pc = "awaitFetch" /\ calls[3].type = "HEAD" /\ calls[3].url = calls[1].url
    /\ calls[3].fetches = 1
    /\ requestCache[keyOf(calls[1])] = <<2>>
    /\ requestCache[keyOf(calls[3])] = <<>>

====
